---- MODULE Spec2Model ----
(***************************************************************************)
(* State-machine model of deepks/model/reader.py: the per-system readers   *)
(* (Reader, ForceReader, OrbitalReader) and the GroupReader that owns      *)
(* them.                                                                   *)
(*                                                                         *)
(* Conventions.                                                            *)
(*  - A frame is named <<p, i>>: row i (1-based) of the arrays stored at    *)
(*    path_list[p].  Every array of a system is frame aligned, so one      *)
(*    sequence of frame names stands for each stored array.                *)
(*  - Python positions are 0-based, TLA+ sequences 1-based: the Python     *)
(*    index k is position k + 1 here.  index_count_all keeps its Python    *)
(*    value (a count of frames).                                           *)
(*  - A probability is kept as its numerator and denominator.              *)
(*  - np.random.choice is a nondeterministic choice over its support.      *)
(***************************************************************************)
EXTENDS Integers, Sequences, FiniteSets, TLC

\* ------------------------------------------------------------------ bounds
\* raw frames of one system file, and of a whole path list
MaxRaw == 3
\* requested batch_size
MaxBatch == 3
\* requested group_batch
MaxGroupBatch == 2
\* length of path_list
MaxSystems == 2
\* atom counts range over 1..MaxNatm
MaxNatm == 2
\* the per-reader call counter saturates here
MaxCalls == 3
\* channel counts range over 1..MaxProj where systems of several widths are given
MaxProj == 2
\* channel counts range over 1..MaxChannels where statistics are computed
MaxChannels == 5
\* symm_sections has up to MaxSections entries
MaxSections == 2

VARIABLES
    path_list,      \* GroupReader.path_list: the system files given
    conv_filter,    \* the conv_filter keyword handed to every reader
    batch_size,     \* GroupReader.batch_size (as requested)
    group_batch,    \* GroupReader.group_batch
    readers,        \* GroupReader.readers
    nframes,        \* GroupReader.nframes
    sys_prob,       \* GroupReader.sys_prob
    group_dict,     \* GroupReader.group_dict (natm -> positions in readers)
    group_prob,     \* GroupReader.group_prob
    batch_prob_raw, \* GroupReader.batch_prob_raw
    sample_used,    \* GroupReader._sample_used
    ret,            \* what the last call returned (or raised)
    err             \* "" or the exception the constructor raised

vars == <<path_list, conv_filter, batch_size, group_batch, readers, nframes,
          sys_prob, group_dict, group_prob, batch_prob_raw, sample_used, ret, err>>

\* ----------------------------------------------------------- array helpers
Min(a, b) == IF a < b THEN a ELSE b

Max(a, b) == IF a < b THEN b ELSE a

Range(s) == {s[k] : k \in DOMAIN s}

RECURSIVE SumSeq(_)
SumSeq(s) == IF s = <<>> THEN 0 ELSE Head(s) + SumSeq(Tail(s))

RECURSIVE Concat(_)
Concat(ss) == IF ss = <<>> THEN <<>> ELSE Head(ss) \o Concat(Tail(ss))

\* a[conv] with a boolean array conv
RECURSIVE BoolIndex(_, _)
BoolIndex(a, conv) ==
    IF a = <<>> THEN <<>>
    ELSE (IF Head(conv) THEN <<Head(a)>> ELSE <<>>) \o BoolIndex(Tail(a), Tail(conv))

\* conv.sum()
CountTrue(conv) == Cardinality({k \in DOMAIN conv : conv[k]})

\* every position reading the row of the first index
TakeFirst(a, ind) == [k \in 1..Len(ind) |-> a[ind[1]]]

\* a[ind] with an integer array ind
Take(a, ind) == [k \in 1..Len(ind) |-> a[ind[k]]]

\* np.arange(lo, hi), as positions
Arange(lo, hi) == [k \in 1..(hi - lo) |-> lo + k]

\* q[:n]
SliceTo(q, n) == SubSeq(q, 1, Min(Max(n, 0), Len(q)))

\* q[n:]
SliceFrom(q, n) == SubSeq(q, Min(Max(n, 0), Len(q)) + 1, Len(q))

\* np.random.choice(n, n, replace=True): what a draw with replacement gives
RandomChoiceReplace(n) == [1..n -> 1..n]

\* np.random.choice(n, n, replace=False): a permutation of the positions 1..n
RandomChoice(n) == Permutations(1..n)

\* ---------------------------------------------------------- system readers
\* the arrays a reader keeps
StoredNames(cls) ==
    CASE cls = "Reader" -> {"data_ec", "data_dm"}
      [] cls = "ForceReader" ->
            {"data_ec", "data_dm", "t_ec", "t_eig", "t_fc", "t_gvx"}
      [] cls = "OrbitalReader" ->
            {"data_ec", "data_dm", "t_ec", "t_eig", "t_fc", "t_gvx", "t_oc", "t_op"}

\* the arrays a batch is made of, in the order they are returned
SampleNames(cls) ==
    CASE cls = "Reader" -> <<"data_ec", "data_dm">>
      [] cls = "ForceReader" -> <<"t_ec", "t_eig", "t_fc", "t_gvx">>
      [] cls = "OrbitalReader" -> <<"t_ec", "t_eig", "t_fc", "t_gvx", "t_oc", "t_op">>

\* the rows of the arrays of path p before filtering
Rows(p, raw) == [i \in 1..raw |-> <<p, i>>]

\* batch_size left as requested although nframes is smaller
ClampBatchNever(nf, bs) == bs

\* `if self.nframes < self.batch_size: self.batch_size = self.nframes`
ClampBatch(nf, bs) == IF nf < bs THEN nf ELSE bs

\* self.nframes = conv.sum()
KeptCount(conv) == CountTrue(conv)

\* the mask prepare() applies
ConvMask(file, c_filter) ==
    IF c_filter THEN file.conv ELSE [i \in 1..file.raw |-> TRUE]

\* load_meta() and prepare() of the three classes, and idx_queue = []
\* the descriptor arrays a Reader concatenates: d_name="dm_eig", made a list
d_name == <<"dm_eig">>

\* ndesc: data_dm.shape[-1] for a Reader, nproj for the other two
Ndesc(cls, file) ==
    IF cls = "Reader" THEN file.nproj * Len(d_name) ELSE file.nproj

NewReader(cls, p, file, bs, c_filter) ==
    LET conv == ConvMask(file, c_filter)
        kept == BoolIndex(Rows(p, file.raw), conv)
        nf == KeptCount(conv)
    IN [path |-> p,
        cls |-> cls,
        natm |-> file.natm,
        ndesc |-> Ndesc(cls, file),
        nframes |-> nf,
        batch_size |-> ClampBatch(nf, bs),
        index_count_all |-> 0,
        idx_queue |-> <<>>,
        store |-> [f \in StoredNames(cls) |-> kept],
        \* history, not program state
        calls |-> 0,
        reshuffled |-> FALSE,
        window |-> [x \in Range(kept) |-> 0],
        covered |-> 0,
        dropped |-> 0]

\* sample_all(): every stored frame, for each returned array
sample_all(r) ==
    [k \in 1..Len(SampleNames(r.cls)) |-> r.store[SampleNames(r.cls)[k]]]

\* the frames of a batch (of its first array)
Bump(n) == Min(n + 1, MaxCalls)

\* how often each frame has been returned since the last reshuffle (2: twice or more)
Returned(window, seq) ==
    [x \in DOMAIN window |->
        Min(2, window[x] + Cardinality({k \in DOMAIN seq : seq[k] = x}))]

ZeroWindow(r) == [x \in DOMAIN r.window |-> 0]

\* The history kept beside a reader, after a call that returned sample:
\*   calls       the calls of sample_train() so far, up to MaxCalls
\*   reshuffled  whether this call drew a permutation
\*   window      how often each frame was returned since the last permutation
\*   covered     how many distinct frames the window before it returned
\*   dropped     how many queued indices the last permutation replaced
Track(r, shuffled, sample, tail) ==
    [r EXCEPT !.calls = Bump(r.calls),
              !.reshuffled = shuffled,
              !.window = Returned(IF shuffled THEN ZeroWindow(r) ELSE r.window,
                                  IF sample = <<>> THEN <<>> ELSE sample[1]),
              !.covered = IF shuffled
                          THEN Cardinality({x \in DOMAIN r.window : r.window[x] > 0})
                          ELSE r.covered,
              !.dropped = IF shuffled THEN Len(tail) ELSE r.dropped]

\* `if self.nframes == self.batch_size == 1`
Degenerate(r) == r.nframes = r.batch_size /\ r.batch_size = 1

\* the epoch test with >= in place of >
CursorExhaustedEarly(r, c) == c >= r.nframes

\* `if self.index_count_all > self.nframes`
CursorExhausted(r, c) == c > r.nframes

\* Reader.sample_train(); ind is the permutation drawn if the data is shuffled
Reader_sample_train(r, ind) ==
    IF Degenerate(r)
    THEN [reader |-> Track(r, FALSE, sample_all(r), <<>>), sample |-> sample_all(r)]
    ELSE LET c1 == r.index_count_all + r.batch_size
             shuffle == CursorExhausted(r, c1)
             c2 == IF shuffle THEN r.batch_size ELSE c1
             st == IF shuffle
                   THEN [f \in DOMAIN r.store |-> Take(r.store[f], ind)]
                   ELSE r.store
             pos == Arange(c2 - r.batch_size, c2)
             sample == <<Take(st.data_ec, pos), Take(st.data_dm, pos)>>
         IN [reader |-> Track([r EXCEPT !.index_count_all = c2, !.store = st],
                              shuffle, sample, <<>>),
             sample |-> sample]

\* the queue refilled only once it is empty
QueueShortWhenEmpty(r) == Len(r.idx_queue) = 0

\* `if len(self.idx_queue) < self.batch_size`
QueueShort(r) == Len(r.idx_queue) < r.batch_size

\* ForceReader.sample_train() and OrbitalReader.sample_train()
ForceReader_sample_train(r, ind) ==
    IF Degenerate(r)
    THEN [reader |-> Track(r, FALSE, sample_all(r), <<>>), sample |-> sample_all(r)]
    ELSE LET regen == QueueShort(r)
             q1 == IF regen THEN ind ELSE r.idx_queue
             sample_idx == SliceTo(q1, r.batch_size)
             q2 == SliceFrom(q1, r.batch_size)
             names == SampleNames(r.cls)
             sample == [k \in 1..Len(names) |-> Take(r.store[names[k]], sample_idx)]
         IN [reader |-> Track([r EXCEPT !.idx_queue = q2], regen, sample, r.idx_queue),
             sample |-> sample]

\* whether this call draws a permutation
WillShuffle(r) ==
    /\ ~Degenerate(r)
    /\ IF r.cls = "Reader"
       THEN CursorExhausted(r, r.index_count_all + r.batch_size)
       ELSE QueueShort(r)

\* the permutations the call may draw (none is drawn when it does not shuffle)
Draws(r) == IF WillShuffle(r) THEN RandomChoice(r.nframes) ELSE {<<>>}

\* r.sample_train() of whichever class r is
sample_train(r, ind) ==
    IF r.cls = "Reader" THEN Reader_sample_train(r, ind)
    ELSE ForceReader_sample_train(r, ind)

\* ------------------------------------------------------------- GroupReader
\* Reader_class = OrbitalReader if with_orbital else ForceReader if with_force else Reader
ReaderClass(with_force, with_orbital) ==
    IF with_orbital THEN "OrbitalReader"
    ELSE IF with_force THEN "ForceReader" ELSE "Reader"

\* every reader is kept, the empty ones too
KeepAll(rs) == rs

\* the loop over path_list: `if ireader.get_nframes() == 0: continue`
KeepNonEmpty(rs) == SelectSeq(rs, LAMBDA r : r.nframes # 0)

\* self.readers after the loop over path_list
BuildReaders(cls, pl, bs, c_filter) ==
    KeepNonEmpty([p \in 1..Len(pl) |-> NewReader(cls, p, pl[p], bs, c_filter)])

\* self.nframes
FrameCounts(rs) == [i \in 1..Len(rs) |-> rs[i].nframes]

\* self.sys_prob = nframes / np.sum(nframes)
SysProb(rs) ==
    [i \in 1..Len(rs) |-> [num |-> rs[i].nframes, den |-> SumSeq(FrameCounts(rs))]]

\* the systems grouped by the first system's natm only
GroupDictFirst(rs) ==
    [n \in {rs[1].natm} |-> SelectSeq([i \in 1..Len(rs) |-> i], LAMBDA i : TRUE)]

\* self.group_dict: natm -> the readers with that natm, in the order of self.readers
GroupDict(rs) ==
    [n \in {rs[i].natm : i \in 1..Len(rs)} |->
        SelectSeq([i \in 1..Len(rs) |-> i], LAMBDA i : rs[i].natm = n)]

\* self.group_prob[n] = sum(r.nframes for r in r_list) / sum(self.nframes)
GroupProb(rs, gd) ==
    [n \in DOMAIN gd |->
        [num |-> SumSeq([k \in 1..Len(gd[n]) |-> rs[gd[n][k]].nframes]),
         den |-> SumSeq(FrameCounts(rs))]]

\* self.batch_prob_raw[n] = [r.nframes / r.batch_size for r in r_list]
BatchProbRaw(rs, gd) ==
    [n \in DOMAIN gd |->
        [k \in 1..Len(gd[n]) |->
            [num |-> rs[gd[n][k]].nframes, den |-> rs[gd[n][k]].batch_size]]]

NoReturn == [op |-> "", csys |-> <<>>, sample |-> <<>>, raised |-> ""]

\* a constructor that goes on with no reader left
FirstReaderAny(rs) == ""

\* `self.ndesc = self.readers[0].ndesc` raises IndexError when no reader is left
FirstReader(rs) == IF rs = <<>> THEN "IndexError" ELSE ""

\* GroupReader.__init__
Construct(pl, bs, gb, with_force, with_orbital, c_filter) ==
    LET cls == ReaderClass(with_force, with_orbital)
        rs == BuildReaders(cls, pl, bs, c_filter)
        grouped == rs # <<>> /\ Max(gb, 1) > 1
    IN /\ path_list = pl
       /\ conv_filter = c_filter
       /\ batch_size = bs
       /\ readers = rs
       /\ nframes = FrameCounts(rs)
       /\ err = FirstReader(rs)
       /\ sys_prob = IF rs = <<>> THEN <<>> ELSE SysProb(rs)
       /\ group_batch = IF rs = <<>> THEN 0 ELSE Max(gb, 1)
       /\ group_dict = IF grouped THEN GroupDict(rs) ELSE <<>>
       /\ group_prob = IF grouped THEN GroupProb(rs, GroupDict(rs)) ELSE <<>>
       /\ batch_prob_raw = IF grouped THEN BatchProbRaw(rs, GroupDict(rs)) ELSE <<>>
       /\ sample_used = 0
       /\ ret = NoReturn

\* get_train_size(): np.sum(self.nframes)
get_train_size == SumSeq(nframes)

\* sample_idx(): np.random.choice(np.arange(self.nsystems), p=self.sys_prob)
sample_idx == {i \in 1..Len(readers) : sys_prob[i].num > 0}

\* a system larger than the exhaustive bound is followed for MaxCalls calls only
Within(r) == r.nframes > MaxRaw => r.calls < MaxCalls

Returns(op, csys, sample) ==
    [op |-> op, csys |-> csys, sample |-> sample, raised |-> ""]

Raises(op, csys, raised) ==
    [op |-> op, csys |-> csys, sample |-> <<>>, raised |-> raised]

\* GroupReader.sample_train(idx), with idx given or drawn by sample_idx()
SampleTrain ==
    /\ err = ""
    /\ \E idx \in (1..Len(readers)) \cup sample_idx :
         /\ Within(readers[idx])
         /\ \E ind \in Draws(readers[idx]) :
              LET res == sample_train(readers[idx], ind)
              IN /\ readers' = [readers EXCEPT ![idx] = res.reader]
                 /\ ret' = Returns("sample_train", <<idx>>, res.sample)
    /\ UNCHANGED <<path_list, conv_filter, batch_size, group_batch, nframes, sys_prob,
                   group_dict, group_prob, batch_prob_raw, sample_used, err>>

\* GroupReader.sample_all(idx), with idx given or drawn by sample_idx()
SampleAll ==
    /\ err = ""
    /\ \E idx \in (1..Len(readers)) \cup sample_idx :
         ret' = Returns("sample_all", <<idx>>, sample_all(readers[idx]))
    /\ UNCHANGED <<path_list, conv_filter, batch_size, group_batch, readers, nframes,
                   sys_prob, group_dict, group_prob, batch_prob_raw, sample_used, err>>

\* torch.split without the shorter last slice
SplitWhole(a, size) ==
    [c \in 1..(Len(a) \div size) |-> SubSeq(a, (c - 1) * size + 1, c * size)]

\* torch.split(a, size, dim=0): consecutive slices of size rows, the last one with
\* the rows that are left
Split(a, size) ==
    [c \in 1..((Len(a) + size - 1) \div size) |->
        SubSeq(a, (c - 1) * size + 1, Min(c * size, Len(a)))]

\* sample_all_batch(idx), read to its end: the chunks it yields, each one the tuple
\* of the slices of the arrays of sample_all(idx); idx = 0 stands for None
RECURSIVE sample_all_batch(_)
sample_all_batch(idx) ==
    IF idx # 0
    THEN LET all_data == sample_all(readers[idx])
             size == batch_size * group_batch
             parts == [k \in DOMAIN all_data |-> Split(all_data[k], size)]
         IN [c \in 1..Len(parts[1]) |-> [k \in DOMAIN all_data |-> parts[k][c]]]
    ELSE Concat([i \in 1..Len(readers) |-> sample_all_batch(i)])

\* list(GroupReader.sample_all_batch(idx)), with idx given or None
SampleAllBatch ==
    /\ err = ""
    /\ \E idx \in 0..Len(readers) :
         ret' = Returns("sample_all_batch",
                        IF idx = 0 THEN [i \in 1..Len(readers) |-> i] ELSE <<idx>>,
                        sample_all_batch(idx))
    /\ UNCHANGED <<path_list, conv_filter, batch_size, group_batch, readers, nframes,
                   sys_prob, group_dict, group_prob, batch_prob_raw, sample_used, err>>

\* the running total never reset
ResetKeep(used) == used

\* `self._sample_used = 0`
Reset(used) == 0

\* the end-of-epoch test with >= in place of >
EpochOverEarly(used, size) == used >= size

\* `if self._sample_used > self.get_train_size()`
EpochOver(used, size) == used > size

\* __next__ when the epoch is over: reset the counter, raise StopIteration
Iter_Stop ==
    /\ err = ""
    /\ EpochOver(sample_used, get_train_size)
    /\ sample_used' = Reset(sample_used)
    /\ ret' = [op |-> "__next__", csys |-> <<>>, sample |-> <<>>,
               raised |-> "StopIteration"]
    /\ UNCHANGED <<path_list, conv_filter, batch_size, group_batch, readers, nframes,
                   sys_prob, group_dict, group_prob, batch_prob_raw, err>>

\* the frames a batch counts for: sample[0].shape[0]
Shape0(sample) == Len(sample[1])

\* __next__ with group_batch == 1: one batch of sample_train()
Iter_Sample ==
    /\ err = ""
    /\ ~EpochOver(sample_used, get_train_size)
    /\ group_batch = 1
    /\ \E idx \in sample_idx :
         /\ Within(readers[idx])
         /\ \E ind \in Draws(readers[idx]) :
              LET res == sample_train(readers[idx], ind)
              IN /\ readers' = [readers EXCEPT ![idx] = res.reader]
                 /\ ret' = Returns("__next__", <<idx>>, res.sample)
                 /\ sample_used' = sample_used + Shape0(res.sample)
    /\ UNCHANGED <<path_list, conv_filter, batch_size, group_batch, nframes, sys_prob,
                   group_dict, group_prob, batch_prob_raw, err>>

\* [s.sample_train() for s in csys[k:]], from the readers rs: every outcome, as the
\* readers left behind and the batches drawn, in order
RECURSIVE SampleEach(_, _, _)
SampleEach(rs, csys, k) ==
    IF k > Len(csys) THEN {[readers |-> rs, samples |-> <<>>]}
    ELSE UNION {
           LET res == sample_train(rs[csys[k]], ind)
           IN {[readers |-> o.readers, samples |-> <<res.sample>> \o o.samples] :
                 o \in SampleEach([rs EXCEPT ![csys[k]] = res.reader], csys, k + 1)}
           : ind \in Draws(rs[csys[k]])}

\* only the first drawn system's batch is returned
CatFirst(samples) == samples[1]

\* [torch.cat(d, dim=0) for d in zip(*samples)]
Cat(samples) ==
    [f \in 1..Len(samples[1]) |-> Concat([j \in 1..Len(samples) |-> samples[j][f]])]

\* torch.cat raises when the batches differ in a dimension other than the first:
\* the descriptor arrays are frames x natm x ndesc
CatRaises(rs, csys) ==
    \E j, k \in DOMAIN csys :
        \/ rs[csys[j]].natm # rs[csys[k]].natm
        \/ rs[csys[j]].ndesc # rs[csys[k]].ndesc

\* np.random.choice(list(self.group_prob.keys()), p=list(self.group_prob.values()))
DrawGroup == {n \in DOMAIN group_prob : group_prob[n].num > 0}

\* np.random.choice(cgrp, self.group_batch, p=self.batch_prob[cnatm])
DrawSystems(cnatm) ==
    LET cgrp == group_dict[cnatm]
        likely == {k \in 1..Len(cgrp) : batch_prob_raw[cnatm][k].num > 0}
    IN {[j \in 1..group_batch |-> cgrp[pick[j]]] : pick \in [1..group_batch -> likely]}

\* sample_train_group(): every outcome, as the systems drawn, the readers left
\* behind and the combined batch, or the error torch.cat raised
sample_train_group ==
    UNION {UNION {{[csys |-> csys,
                    readers |-> o.readers,
                    sample |-> IF CatRaises(readers, csys) THEN <<>> ELSE Cat(o.samples),
                    raised |-> IF CatRaises(readers, csys) THEN "RuntimeError" ELSE ""] :
                     o \in SampleEach(readers, csys, 1)}
                  : csys \in DrawSystems(cnatm)}
           : cnatm \in DrawGroup}

\* GroupReader.sample_train_group()
SampleTrainGroup ==
    /\ err = ""
    /\ group_batch > 1
    /\ \E res \in sample_train_group :
         /\ readers' = res.readers
         /\ ret' = IF res.raised = ""
                    THEN Returns("sample_train_group", res.csys, res.sample)
                    ELSE Raises("sample_train_group", res.csys, res.raised)
    /\ UNCHANGED <<path_list, conv_filter, batch_size, group_batch, nframes, sys_prob,
                   group_dict, group_prob, batch_prob_raw, sample_used, err>>

\* __next__ with group_batch > 1: one batch of sample_train_group()
Iter_SampleGroup ==
    /\ err = ""
    /\ ~EpochOver(sample_used, get_train_size)
    /\ group_batch # 1
    /\ \E res \in sample_train_group :
         /\ readers' = res.readers
         /\ ret' = IF res.raised = ""
                    THEN Returns("__next__", res.csys, res.sample)
                    ELSE Raises("__next__", res.csys, res.raised)
         /\ sample_used' = IF res.raised = ""
                            THEN sample_used + Shape0(res.sample)
                            ELSE sample_used
    /\ UNCHANGED <<path_list, conv_filter, batch_size, group_batch, nframes, sys_prob,
                   group_dict, group_prob, batch_prob_raw, err>>

\* ------------------------------------------------------------- statistics
\* A statistic is named by what it pools: d.mean() over all frames and atoms and the
\* channels cols is Pooled("mean", cols).  An optional argument is <<>> when it is
\* None and <<v>> when it is v.
Pooled(stat, cols) == [stat |-> stat, cols |-> cols]

\* x.repeat(n)
Repeat(x, n) == [k \in 1..n |-> x]

\* np.cumsum(s)
CumSum(s) == [k \in 1..Len(s) |-> SumSeq(SubSeq(s, 1, k))]

\* np.split(a, idx, axis=-1) of an array of width channels: the channels of each
\* part, a[..., idx[j-1]:idx[j]] with the slice bounds clipped to the array
SplitAt(width, idx) ==
    [j \in 1..(Len(idx) + 1) |->
        LET lo == IF j = 1 THEN 0 ELSE Min(idx[j - 1], width)
            hi == IF j = Len(idx) + 1 THEN width ELSE Min(idx[j], width)
        IN {c \in 1..width : lo < c /\ c <= hi}]

\* the sections taken as they come, without the assert
SectionsUnchecked(symm_sections, width) == TRUE

\* `assert sum(symm_sections) == all_dm.shape[-1]`
SectionsMatch(symm_sections, width) == SumSeq(symm_sections) = width

\* np.concatenate of arrays r.data_dm.reshape(-1, r.ndesc) raises when their widths
\* differ
ConcatRaises == \E i, j \in DOMAIN readers : readers[i].ndesc # readers[j].ndesc

\* one value per shell, repeated over the section's width, and concatenated:
\* zip(shells, symm_sections) stops at the shorter of the two
Broadcast(stat, shells, symm_sections) ==
    Concat([j \in 1..Min(Len(shells), Len(symm_sections)) |->
              Repeat(Pooled(stat, shells[j]), symm_sections[j])])

Failed(raised) == [raised |-> raised, mean |-> <<>>, std |-> <<>>]

\* compute_data_stat(symm_sections)
compute_data_stat(symm_sections) ==
    IF ConcatRaises THEN Failed("ValueError")
    ELSE LET width == readers[1].ndesc
         IN IF symm_sections = <<>>
            THEN [raised |-> "",
                  mean |-> [c \in 1..width |-> Pooled("mean", {c})],
                  std |-> [c \in 1..width |-> Pooled("std", {c})]]
            ELSE LET sections == symm_sections[1]
                     shells == SplitAt(width, SliceTo(CumSum(sections), Len(sections) - 1))
                 IN IF ~SectionsMatch(sections, width) THEN Failed("AssertionError")
                    ELSE [raised |-> "",
                          mean |-> Broadcast("mean", shells, sections),
                          std |-> Broadcast("std", shells, sections)]

\* compute_prefitting(shift, scale, symm_sections=symm_sections), shift and scale
\* given (of the channel width) or None: the error raised, or the weight returned,
\* each entry named by the channels whose summed feature it was fitted to
compute_prefitting(shift_given, scale_given, symm_sections) ==
    LET stat == IF ~shift_given \/ ~scale_given
                THEN compute_data_stat(symm_sections)
                ELSE [raised |-> "", mean |-> <<>>, std |-> <<>>]
        width == readers[1].ndesc
    IN IF stat.raised # "" THEN [raised |-> stat.raised, weight |-> <<>>]
       ELSE IF ConcatRaises THEN [raised |-> "ValueError", weight |-> <<>>]
       ELSE IF symm_sections = <<>>
       THEN [raised |-> "", weight |-> [c \in 1..width |-> Pooled("weight", {c})]]
       ELSE LET sections == symm_sections[1]
                shells == SplitAt(width, SliceTo(CumSum(sections), Len(sections) - 1))
            IN IF ~SectionsMatch(sections, width)
               THEN [raised |-> "AssertionError", weight |-> <<>>]
               ELSE [raised |-> "", weight |-> Broadcast("weight", shells, sections)]

\* the values of symm_sections: None, or a list of section widths
SectionLists ==
    {<<>>} \cup {<<v>> : v \in UNION {[1..k -> 0..MaxChannels] : k \in 0..MaxSections}}

\* GroupReader.compute_data_stat(symm_sections)
ComputeDataStat ==
    /\ err = ""
    /\ \E symm_sections \in SectionLists :
         LET res == compute_data_stat(symm_sections)
         IN ret' = [op |-> "compute_data_stat", csys |-> <<>>, sample |-> <<>>,
                    raised |-> res.raised, symm_sections |-> symm_sections,
                    mean |-> res.mean, std |-> res.std]
    /\ UNCHANGED <<path_list, conv_filter, batch_size, group_batch, readers, nframes,
                   sys_prob, group_dict, group_prob, batch_prob_raw, sample_used, err>>

\* GroupReader.compute_prefitting(shift, scale, symm_sections=symm_sections)
ComputePrefitting ==
    /\ err = ""
    /\ \E symm_sections \in SectionLists, shift_given \in BOOLEAN, scale_given \in BOOLEAN :
         LET res == compute_prefitting(shift_given, scale_given, symm_sections)
         IN ret' = [op |-> "compute_prefitting", csys |-> <<>>, sample |-> <<>>,
                    raised |-> res.raised, symm_sections |-> symm_sections,
                    shift_given |-> shift_given, scale_given |-> scale_given,
                    weight |-> res.weight]
    /\ UNCHANGED <<path_list, conv_filter, batch_size, group_batch, readers, nframes,
                   sys_prob, group_dict, group_prob, batch_prob_raw, sample_used, err>>

\* ------------------------------------------------------------------ inputs
Masks(raw) == [1..raw -> BOOLEAN]

\* a system directory: its raw frame count, its conv array, its atom count
Files ==
    UNION {{[raw |-> n, conv |-> m, natm |-> a, nproj |-> 1] :
              m \in Masks(n), a \in 1..MaxNatm}
           : n \in 0..MaxRaw}

TotalRaw(pl) == SumSeq([p \in 1..Len(pl) |-> pl[p].raw])

PathLists ==
    {pl \in UNION {[1..k -> Files] : k \in 0..MaxSystems} : TotalRaw(pl) <= MaxRaw}

\* one system, no grouping
InitSystem ==
    \E f \in {g \in Files : g.natm = 1}, bs \in 1..MaxBatch, gb \in 0..1,
       with_force \in BOOLEAN, with_orbital \in BOOLEAN, c_filter \in BOOLEAN :
         Construct(<<f>>, bs, gb, with_force, with_orbital, c_filter)

NextSystem == SampleTrain \/ SampleAll \/ Iter_Stop \/ Iter_Sample

SpecSystem == InitSystem /\ [][NextSystem]_vars

\* the system of the queue example: 7 frames, all of them converged
ExampleFile == [raw |-> 7, conv |-> [i \in 1..7 |-> TRUE], natm |-> 1, nproj |-> 1]

\* one ForceReader or OrbitalReader system: the small ones, and the example with
\* batch_size 3
InitQueue ==
    \E f \in {g \in Files : g.natm = 1} \cup {ExampleFile}, bs \in 1..Max(MaxBatch, 3),
       with_orbital \in BOOLEAN, c_filter \in BOOLEAN :
         /\ f = ExampleFile => bs = 3 /\ c_filter /\ ~with_orbital
         /\ f # ExampleFile => bs <= MaxBatch
         /\ Construct(<<f>>, bs, 1, TRUE, with_orbital, c_filter)

NextQueue == SampleTrain

SpecQueue == InitQueue /\ [][NextQueue]_vars

\* a list of systems, grouped or not
\* (with the filter off the conv arrays are not read: all-true ones stand for them)
Init ==
    \E pl \in PathLists, bs \in 1..MaxBatch, gb \in 0..MaxGroupBatch,
       with_force \in BOOLEAN, with_orbital \in BOOLEAN, c_filter \in BOOLEAN :
         /\ c_filter \/ \A p \in 1..Len(pl) : CountTrue(pl[p].conv) = pl[p].raw
         /\ Construct(pl, bs, gb, with_force, with_orbital, c_filter)

\* (sample_all() changes nothing but what is returned: NextSystem has it)
Next ==
    \/ SampleTrain
    \/ SampleTrainGroup
    \/ Iter_Stop
    \/ Iter_Sample
    \/ Iter_SampleGroup

Spec == Init /\ [][Next]_vars

\* systems of one atom count, sampled and passed over in full
InitPass ==
    \E pl \in PathLists, bs \in 1..MaxBatch, gb \in 0..MaxGroupBatch,
       with_force \in BOOLEAN, with_orbital \in BOOLEAN, c_filter \in BOOLEAN :
         /\ \A p \in 1..Len(pl) : pl[p].natm = 1
         /\ c_filter \/ \A p \in 1..Len(pl) : CountTrue(pl[p].conv) = pl[p].raw
         /\ Construct(pl, bs, gb, with_force, with_orbital, c_filter)

NextPass ==
    \/ SampleTrain
    \/ SampleAllBatch
    \/ Iter_Stop
    \/ Iter_Sample
    \/ Iter_SampleGroup

SpecPass == InitPass /\ [][NextPass]_vars

\* system directories whose system.raw gives any of the channel counts
WideFiles ==
    {[raw |-> n, conv |-> [k \in 1..n |-> TRUE], natm |-> a, nproj |-> w] :
       n \in 1..MaxRaw, a \in 1..MaxNatm, w \in 1..MaxProj}

\* a list of systems of any atom counts and channel counts, grouped or not
InitWidth ==
    \E pl \in UNION {[1..k -> WideFiles] : k \in 1..MaxSystems},
       bs \in 1..MaxBatch, gb \in 0..MaxGroupBatch,
       with_force \in BOOLEAN, with_orbital \in BOOLEAN :
         /\ TotalRaw(pl) <= MaxRaw
         /\ Construct(pl, bs, gb, with_force, with_orbital, TRUE)

NextWidth ==
    \/ SampleTrain
    \/ SampleTrainGroup
    \/ Iter_Stop
    \/ Iter_Sample
    \/ Iter_SampleGroup

SpecWidth == InitWidth /\ [][NextWidth]_vars

\* system directories for the statistics: one frame of one atom, any channel count
\* (a statistic is named by the channels it pools, whatever the rows are)
StatFiles ==
    {[raw |-> 1, conv |-> <<TRUE>>, natm |-> 1, nproj |-> w] : w \in 1..MaxChannels}

\* a list of systems whose statistics are asked for
InitStat ==
    \E pl \in UNION {[1..k -> StatFiles] : k \in 1..MaxSystems},
       with_force \in BOOLEAN :
         Construct(pl, 1, 1, with_force, FALSE, TRUE)

NextStat == ComputeDataStat \/ ComputePrefitting

SpecStat == InitStat /\ [][NextStat]_vars

\* `for sample in g_reader`, epoch after epoch: the loop asks for the next batch as
\* long as it is given one, and starts over after StopIteration
NextEpoch ==
    \/ Iter_Stop
    \/ Iter_Sample
    \/ Iter_SampleGroup

\* a list of systems with every frame converged, read with or without forces
InitEpoch ==
    \E pl \in PathLists, bs \in 1..MaxBatch, gb \in 1..MaxGroupBatch,
       with_force \in BOOLEAN :
         /\ \A p \in 1..Len(pl) : CountTrue(pl[p].conv) = pl[p].raw
         /\ Construct(pl, bs, gb, with_force, FALSE, TRUE)

\* when a step of __next__ with group_batch > 1 can be taken: a group, its systems
\* and their permutations can always be drawn
GroupStepEnabled ==
    err = "" /\ ~EpochOver(sample_used, get_train_size) /\ group_batch # 1

\* the loop goes on calling __next__: weak fairness of each of its steps, that of
\* the group step with its enabling condition written out
IterateOn ==
    /\ WF_vars(Iter_Stop)
    /\ WF_vars(Iter_Sample)
    /\ ([]<>(~GroupStepEnabled) \/ []<><<Iter_SampleGroup>>_vars)

SpecEpoch == InitEpoch /\ [][NextEpoch]_vars /\ IterateOn

\* ------------------------------------------------- what the claims speak of
\* the frames path p should retain
Retained(p) ==
    IF conv_filter
    THEN Cardinality({k \in 1..path_list[p].raw : path_list[p].conv[k]})
    ELSE path_list[p].raw

\* the batch size a system of path p should work with
Effective(p) == IF Retained(p) < batch_size THEN Retained(p) ELSE batch_size

\* the last call returned a batch drawn for training
IsBatch == ret.op \in {"sample_train", "sample_train_group", "__next__"} /\ ret.raised = ""

\* the last call returned a batch of one system's sample_train()
IsSystemBatch == IsBatch /\ Len(ret.csys) = 1

\* the last call returned a batch of sample_train_group()
IsGroupBatch == IsBatch /\ group_batch > 1 /\ ret.op # "sample_train"

\* every frame of reader r, as loaded
FramesOf(r) == DOMAIN r.window

NoRepeat(seq) == \A j, k \in DOMAIN seq : seq[j] = seq[k] => j = k

\* C1: a batch returned by sample() of any of the three reader classes has, in every
\* one of its arrays, exactly batch_size frames: the requested size, or nframes when
\* the system has fewer frames; never fewer, never more.
C1_BatchHasBatchSize ==
    IsSystemBatch =>
        LET r == readers[ret.csys[1]]
        IN /\ Len(ret.sample) = Len(SampleNames(r.cls))
           /\ r.batch_size = Effective(r.path)
           /\ \A k \in DOMAIN ret.sample : Len(ret.sample[k]) = Effective(r.path)

\* a clamped batch size above 1, returned right after a reshuffle
C1_Witness ==
    /\ IsSystemBatch
    /\ LET r == readers[ret.csys[1]]
       IN /\ r.calls = MaxCalls
          /\ r.reshuffled
          /\ 1 < r.batch_size /\ r.batch_size < batch_size
          /\ Len(ret.sample[1]) = r.batch_size

\* C2: after construction nframes is the number of True entries of the convergence
\* mask (every raw frame with the filter off), every stored array has nframes
\* frames, and batch_size is min(requested, nframes), so batch_size <= nframes.
C2_ClampedAtConstruction ==
    \A i \in DOMAIN readers :
        LET r == readers[i]
        IN /\ r.nframes = Retained(r.path)
           /\ nframes[i] = r.nframes
           /\ \A f \in DOMAIN r.store : Len(r.store[f]) = r.nframes
           /\ r.batch_size = Min(batch_size, r.nframes)
           /\ r.batch_size <= r.nframes

\* a filtered system with fewer frames than requested, some calls later
C2_Witness ==
    \E i \in DOMAIN readers :
        LET r == readers[i]
        IN /\ conv_filter
           /\ 1 < r.nframes /\ r.nframes < path_list[r.path].raw
           /\ r.nframes < batch_size
           /\ r.batch_size = r.nframes
           /\ r.calls = MaxCalls

\* the paths that should be kept, in input order
KeptPaths == SelectSeq([p \in 1..Len(path_list) |-> p], LAMBDA p : Retained(p) > 0)

\* C3: a GroupReader that was built holds exactly the systems that retain at least
\* one frame, in input order; the others are dropped without an error; and
\* get_train_size() is the sum of the retained systems' frame counts.
C3_DropEmpty ==
    /\ KeptPaths # <<>> => err = ""
    /\ err = "" =>
        /\ [i \in 1..Len(readers) |-> readers[i].path] = KeptPaths
        /\ nframes = [i \in 1..Len(KeptPaths) |-> Retained(KeptPaths[i])]
        /\ get_train_size = SumSeq([i \in 1..Len(KeptPaths) |-> Retained(KeptPaths[i])])

\* two systems given, the first one with frames but none converged: one system left
C3_Witness ==
    /\ err = ""
    /\ Len(path_list) = 2
    /\ path_list[1].raw > 0 /\ Retained(1) = 0
    /\ Len(readers) = 1 /\ readers[1].path = 2
    /\ get_train_size = Retained(2)
    /\ IsBatch

\* the frames of path p as loaded, in load order
Original(p) ==
    SelectSeq(Rows(p, path_list[p].raw),
              LAMBDA x : ~conv_filter \/ path_list[p].conv[x[2]])

\* a reader that goes through the cursor of Reader.sample_train()
IsPolicyA(r) == r.cls = "Reader" /\ ~(r.nframes = 1 /\ r.batch_size = 1)

\* a reader that goes through the queue of ForceReader/OrbitalReader.sample_train()
IsPolicyB(r) == r.cls # "Reader" /\ ~(r.nframes = 1 /\ r.batch_size = 1)

\* the frames the queued indices stand for
Queued(r) == [k \in 1..Len(r.idx_queue) |-> r.store.t_ec[r.idx_queue[k]]]

\* C4: with batch_size < nframes, no frame is returned twice between two reshuffles,
\* under either policy, and a reshuffle is a permutation of all nframes indices:
\* the stored arrays of a Reader stay a rearrangement of the loaded frames, and the
\* queue of a ForceReader/OrbitalReader holds each index not yet returned once.
C4_NoRepeatInEpoch ==
    \A i \in DOMAIN readers :
        LET r == readers[i]
        IN r.batch_size < r.nframes =>
            /\ \A x \in FramesOf(r) : r.window[x] <= 1
            /\ \A f \in DOMAIN r.store :
                 Len(r.store[f]) = r.nframes /\ Range(r.store[f]) = FramesOf(r)
            /\ (r.cls # "Reader" /\ r.calls > 0) =>
                 /\ NoRepeat(r.idx_queue)
                 /\ Range(Queued(r)) = {x \in FramesOf(r) : r.window[x] = 0}

\* two batches drawn from one permutation, after an earlier window ended
C4_Witness ==
    \E i \in DOMAIN readers :
        LET r == readers[i]
        IN /\ r.batch_size < r.nframes
           /\ ~r.reshuffled /\ r.covered > 0
           /\ Cardinality({x \in FramesOf(r) : r.window[x] = 1}) = 2 * r.batch_size

C5_State ==
    \A i \in DOMAIN readers :
        LET r == readers[i]
            lo == r.index_count_all - r.batch_size
        IN IsPolicyA(r) =>
            /\ r.calls = 0 => r.index_count_all = 0
            /\ r.calls > 0 =>
                 r.batch_size <= r.index_count_all /\ r.index_count_all <= r.nframes
            /\ r.calls = 1 => ~r.reshuffled /\ r.store.data_ec = Original(r.path)
            /\ (IsSystemBatch /\ ret.csys = <<i>>) =>
                 /\ ret.sample[1] = SubSeq(r.store.data_ec, lo + 1, r.index_count_all)
                 /\ ret.sample[2] = SubSeq(r.store.data_dm, lo + 1, r.index_count_all)
                 /\ r.calls = 1 => ret.sample[1] = SubSeq(Original(r.path), 1, r.batch_size)

C5_Step ==
    \A i \in DOMAIN readers :
        LET r == readers[i]
            after == readers'[i]
            c1 == r.index_count_all + r.batch_size
        IN (IsPolicyA(r) /\ after # r) =>
            /\ after.reshuffled <=> c1 > r.nframes
            /\ after.index_count_all = IF c1 > r.nframes THEN r.batch_size ELSE c1
            /\ ~after.reshuffled => after.store = r.store
            /\ after.reshuffled =>
                 /\ NoRepeat(after.store.data_ec)
                 /\ Range(after.store.data_ec) = Range(r.store.data_ec)
                 /\ after.store.data_dm = after.store.data_ec

\* C5: a Reader outside the one-frame case starts with cursor 0; each sample() adds
\* batch_size to the cursor, and if the cursor then exceeds nframes it is set to
\* batch_size and all stored arrays are reordered by one permutation; the batch is
\* the storage positions [cursor - batch_size, cursor).  So batch_size <= cursor <=
\* nframes after every call, a reshuffle happens exactly when the advanced cursor
\* exceeds nframes, and the first batch is the first batch_size frames as loaded.
C5_BlockCursor == [](C5_State) /\ [][C5_Step]_vars

\* a reshuffle just happened: the cursor is back at batch_size, the order changed
C5_Witness ==
    /\ IsSystemBatch
    /\ LET r == readers[ret.csys[1]]
       IN /\ IsPolicyA(r)
          /\ r.calls = MaxCalls /\ r.reshuffled
          /\ r.index_count_all = r.batch_size /\ r.batch_size < r.nframes
          /\ r.store.data_ec # Original(r.path)

\* C6 as stated: when a Reader reorders, the window that ends has returned every
\* frame of the dataset (each once).
C6_Original ==
    \A i \in DOMAIN readers :
        LET r == readers[i]
        IN (IsPolicyA(r) /\ r.reshuffled) =>
            /\ r.covered = r.nframes
            /\ \A x \in FramesOf(r) : r.window[x] <= 1

\* C6, amended: a window of a Reader returns batch_size * (nframes div batch_size)
\* distinct frames, none twice (all of them only if batch_size divides nframes: the
\* nframes mod batch_size frames last in storage order are skipped), and the
\* reorders fall on the calls 1 + k * (nframes div batch_size), k >= 1 (call 3 for
\* nframes = 10, batch_size = 4, each window covering 8 of the 10 frames).
C6_WindowCoverage ==
    \A i \in DOMAIN readers :
        LET r == readers[i]
            q == r.nframes \div r.batch_size
        IN IsPolicyA(r) =>
            /\ \A x \in FramesOf(r) : r.window[x] <= 1
            /\ r.reshuffled => r.covered = r.batch_size * q
            /\ (r.reshuffled /\ r.calls < MaxCalls) =>
                 r.calls > 1 /\ (r.calls - 1) % q = 0
            /\ (~r.reshuffled /\ r.calls < MaxCalls /\ r.calls > 0) =>
                 (r.calls - 1) % q # 0 \/ r.calls = 1

\* a window ended having skipped a frame
C6_Witness ==
    \E i \in DOMAIN readers :
        LET r == readers[i]
        IN /\ IsPolicyA(r) /\ r.reshuffled
           /\ 0 < r.covered /\ r.covered < r.nframes
           /\ r.nframes % r.batch_size # 0

C7_QueueState ==
    \A i \in DOMAIN readers :
        LET r == readers[i]
        IN IsPolicyB(r) =>
            /\ r.calls = 0 => r.idx_queue = <<>>
            /\ r.reshuffled =>
                 r.dropped < r.batch_size /\ Len(r.idx_queue) = r.nframes - r.batch_size
            /\ r.calls > 0 =>
                 /\ NoRepeat(r.idx_queue)
                 /\ Range(r.idx_queue) \subseteq 1..r.nframes
                 /\ Range(Queued(r)) = {x \in FramesOf(r) : r.window[x] = 0}
            /\ (IsSystemBatch /\ ret.csys = <<i>>) =>
                 /\ \A k \in DOMAIN ret.sample : Len(ret.sample[k]) = r.batch_size
                 /\ NoRepeat(ret.sample[1])
                 /\ Range(ret.sample[1]) \cap Range(Queued(r)) = {}

\* nframes = 7, batch_size = 3: the third call regenerates the queue, dropping
\* `left` indices of the first permutation
C7_Example(left) ==
    \A i \in DOMAIN readers :
        LET r == readers[i]
        IN (r.cls # "Reader" /\ r.nframes = 7 /\ r.batch_size = 3 /\ r.calls = 3) =>
            r.reshuffled /\ r.dropped = left

C7_Step ==
    \A i \in DOMAIN readers :
        LET r == readers[i]
            after == readers'[i]
        IN (IsPolicyB(r) /\ after # r) =>
            /\ after.reshuffled <=> Len(r.idx_queue) < r.batch_size
            /\ after.reshuffled => after.dropped = Len(r.idx_queue)
            /\ ~after.reshuffled =>
                 /\ after.idx_queue = SubSeq(r.idx_queue, r.batch_size + 1, Len(r.idx_queue))
                 /\ ret'.sample[1] =
                      [k \in 1..r.batch_size |-> r.store.t_ec[r.idx_queue[k]]]

\* C7 as stated, with 2 indices left over in the example
C7_Original == C7_QueueState /\ C7_Example(2)

\* C7, amended: outside the one-frame case the queue of a ForceReader/OrbitalReader
\* starts empty; a sample() that finds fewer than batch_size indices queued drops
\* them and replaces the queue by a permutation of all nframes indices; the first
\* batch_size indices are then returned and removed, never a short batch.  For
\* nframes = 7, batch_size = 3 the third call regenerates the queue and drops the
\* 1 index (7 mod 3) left of the first permutation.
C7_QueueRefill == [](C7_QueueState /\ C7_Example(1)) /\ [][C7_Step]_vars

\* the example after its third call
C7_Witness ==
    \E i \in DOMAIN readers :
        LET r == readers[i]
        IN /\ r.cls = "ForceReader" /\ r.nframes = 7 /\ r.batch_size = 3
           /\ r.calls = 3 /\ r.reshuffled /\ r.dropped = 1
           /\ Len(r.idx_queue) = 4

\* the frames the drawn systems' own batch sizes add up to
DrawnFrames ==
    SumSeq([j \in 1..Len(ret.csys) |-> Effective(readers[ret.csys[j]].path)])

\* C8 as stated: a group batch has batch_size * group_batch frames in every array,
\* whatever systems were drawn.
C8_Original ==
    IsGroupBatch =>
        \A k \in DOMAIN ret.sample : Len(ret.sample[k]) = batch_size * group_batch

\* C8, amended: sample_train_group() draws group_batch systems, with replacement,
\* from one atom-count group, calls sample() once per draw and concatenates the
\* batches in draw order; the combined batch has, in every array, the sum of the
\* drawn systems' own batch sizes min(batch_size, nframes): batch_size * group_batch
\* exactly when no drawn system was clamped, fewer otherwise.
C8_GroupBatchSize ==
    IsGroupBatch =>
        /\ Len(ret.csys) = group_batch
        /\ \E n \in DOMAIN group_dict : Range(ret.csys) \subseteq Range(group_dict[n])
        /\ Len(ret.sample) = Len(SampleNames(readers[ret.csys[1]].cls))
        /\ \A k \in DOMAIN ret.sample : Len(ret.sample[k]) = DrawnFrames
        /\ DrawnFrames <= batch_size * group_batch
        /\ DrawnFrames = batch_size * group_batch <=>
             \A j \in DOMAIN ret.csys : readers[ret.csys[j]].nframes >= batch_size
        /\ \A j \in DOMAIN ret.csys :
             LET lo == SumSeq([h \in 1..(j - 1) |-> Effective(readers[ret.csys[h]].path)])
             IN \A m \in 1..Effective(readers[ret.csys[j]].path) :
                  ret.sample[1][lo + m][1] = readers[ret.csys[j]].path

\* a clamped and an unclamped system in one group batch
C8_Witness ==
    /\ IsGroupBatch
    /\ Len(ret.sample[1]) < batch_size * group_batch
    /\ ret.csys[1] # ret.csys[2]
    /\ \E j \in DOMAIN ret.csys : readers[ret.csys[j]].nframes >= batch_size

RECURSIVE SumNum(_, _)
SumNum(prob, S) ==
    IF S = {} THEN 0
    ELSE LET n == CHOOSE x \in S : TRUE
         IN prob[n].num + SumNum(prob, S \ {n})

C9_Table ==
    (err = "" /\ group_batch > 1) =>
        /\ \A i \in DOMAIN readers :
             /\ readers[i].natm \in DOMAIN group_dict
             /\ \A n \in DOMAIN group_dict :
                  i \in Range(group_dict[n]) <=> n = readers[i].natm
        /\ \A n \in DOMAIN group_dict :
             /\ group_dict[n] # <<>>
             /\ NoRepeat(group_dict[n])
             /\ Range(group_dict[n]) \subseteq DOMAIN readers
             /\ group_prob[n].num =
                  SumSeq([i \in 1..Len(readers) |->
                            IF readers[i].natm = n THEN readers[i].nframes ELSE 0])
             /\ group_prob[n].den = get_train_size
        /\ DOMAIN group_prob = DOMAIN group_dict
        /\ get_train_size > 0
        /\ SumNum(group_prob, DOMAIN group_prob) = get_train_size
        /\ IsGroupBatch =>
             \A j \in DOMAIN ret.csys : readers[ret.csys[j]].natm = readers[ret.csys[1]].natm

C9_Frozen ==
    /\ group_dict' = group_dict
    /\ group_prob' = group_prob
    /\ batch_prob_raw' = batch_prob_raw

\* C9: with grouping on, group_dict partitions the included systems by natm (each
\* system in the one group keyed by its natm, no group empty); a group's weight is
\* its frame count over the total, so the weights sum to 1; the systems of one
\* group batch share their natm; and sampling never changes the tables.
C9_GroupsPartition == [](C9_Table) /\ [][C9_Frozen]_vars

\* two groups, and a group batch drawn from the second
C9_Witness ==
    /\ IsGroupBatch
    /\ Cardinality(DOMAIN group_dict) = 2
    /\ ret.csys[1] = 2
    /\ readers[1].natm # readers[2].natm

C10_State ==
    /\ ret.op = "" => sample_used = 0
    /\ ret.raised = "StopIteration" =>
         sample_used = 0 /\ ~(sample_used > get_train_size)

C10_Step ==
    LET stepped == /\ ret'.op = "__next__"
                   /\ <<ret, sample_used, readers>>' # <<ret, sample_used, readers>>
    IN /\ ret'.op # "__next__" => sample_used' = sample_used
       /\ stepped =>
            IF sample_used > get_train_size
            THEN /\ ret'.raised = "StopIteration"
                 /\ sample_used' = 0
                 /\ readers' = readers
            ELSE /\ ret'.raised = ""
                 /\ ret'.sample # <<>>
                 /\ sample_used' = sample_used + Len(ret'.sample[1])

\* C10: a step of the iterator either returns one batch and adds its frame count to
\* the running total, or, when the total exceeds get_train_size(), raises
\* StopIteration and resets the total to 0; the total is 0 when an epoch starts,
\* and after StopIteration the iterator can be stepped again.
C10_EpochProtocol == [](C10_State) /\ [][C10_Step]_vars

\* an epoch of group batches over two systems just ended
C10_Witness ==
    /\ ret.raised = "StopIteration"
    /\ sample_used = 0
    /\ group_batch > 1
    /\ Len(readers) = 2
    /\ \A i \in DOMAIN readers : readers[i].calls > 0

\* the k-th array of every chunk of the last pass, end to end
Yielded(k) == Concat([c \in 1..Len(ret.sample) |-> ret.sample[c][k]])

\* the k-th array of sample_all() of the systems the last pass went over, end to end
Stored(k) == Concat([j \in 1..Len(ret.csys) |-> sample_all(readers[ret.csys[j]])[k]])

C11_Chunks ==
    ret.op = "sample_all_batch" =>
        LET chunks == ret.sample
            size == batch_size * group_batch
            names == SampleNames(readers[ret.csys[1]].cls)
        IN /\ chunks # <<>>
           /\ \A c \in DOMAIN chunks :
                /\ DOMAIN chunks[c] = DOMAIN names
                /\ \A k \in DOMAIN names : Len(chunks[c][k]) = Len(chunks[c][1])
                /\ Len(chunks[c][1]) \in 1..size
                /\ \A x, y \in Range(chunks[c][1]) : x[1] = y[1]
                /\ Len(chunks[c][1]) < size =>
                     \/ c = Len(chunks)
                     \/ chunks[c + 1][1][1][1] # chunks[c][1][1][1]
           /\ \A k \in DOMAIN names : Yielded(k) = Stored(k)
           /\ NoRepeat(Yielded(1))
           /\ Range(Yielded(1)) =
                UNION {FramesOf(readers[ret.csys[j]]) : j \in DOMAIN ret.csys}
           /\ Len(Yielded(1)) = SumSeq([j \in 1..Len(ret.csys) |-> nframes[ret.csys[j]]])

C11_Step ==
    ret'.op = "sample_all_batch" =>
        readers' = readers /\ sample_used' = sample_used

\* C11: the chunks of sample_all_batch(), for one system or for all of them in
\* order, are consecutive slices of sample_all() in storage order, each of
\* batch_size * group_batch frames except possibly the last chunk of a system;
\* together they hold every retained frame exactly once; and the pass changes no
\* cursor, no queue and not the epoch counter.
C11_FullPass == [](C11_Chunks) /\ [][C11_Step]_vars

\* a pass of several chunks, the last one short, made in the middle of an epoch
\* after a reader has reshuffled
C11_Witness ==
    /\ ret.op = "sample_all_batch"
    /\ Len(ret.sample) >= 2
    /\ Len(ret.sample[Len(ret.sample)][1]) < batch_size * group_batch
    /\ sample_used > 0
    /\ \E i \in DOMAIN readers : readers[i].reshuffled

\* the included systems do not all have one channel width
MixedWidths == \E i, j \in DOMAIN readers : readers[i].ndesc # readers[j].ndesc

\* C12 as stated: a GroupReader over systems whose ndesc differ reports an error
\* to the caller: it never returns a single-system batch or a group batch.
C12_Original == MixedWidths => ~IsBatch

\* C12, what the code does: the constructor compares no widths; a single-system
\* batch is always returned; a group batch is returned when the systems drawn have
\* one width, and torch.cat raises only when they have not, after the drawn
\* readers have been sampled.
C12_CodeBehaviour ==
    /\ MixedWidths => err = ""
    /\ (ret.op \in {"sample_train_group", "__next__"} /\ Len(ret.csys) > 1) =>
         (ret.raised = "RuntimeError" <=> CatRaises(readers, ret.csys))
    /\ ret.op = "sample_train" => ret.raised = ""

\* a group batch returned from a collection of two widths
C12_Witness ==
    /\ MixedWidths
    /\ IsGroupBatch
    /\ ret.sample # <<>>

\* the channels of the section channel c lies in, for section widths that add up
SectionOf(sections, c) ==
    LET j == CHOOSE j \in 1..Len(sections) :
               SumSeq(SubSeq(sections, 1, j - 1)) < c /\ c <= SumSeq(SubSeq(sections, 1, j))
    IN {d \in 1..SumSeq(sections) :
          SumSeq(SubSeq(sections, 1, j - 1)) < d /\ d <= SumSeq(SubSeq(sections, 1, j))}

\* C13: for systems of one channel count, compute_data_stat with symm_sections
\* that add up to the channel count returns mean and std of the channel count's
\* length, each entry the one value pooled over its section's channels, so equal
\* within a section; with symm_sections that do not add up it raises and returns
\* nothing, and so does compute_prefitting, also when shift and scale are given.
C13_SymmSections ==
    (ret.op \in {"compute_data_stat", "compute_prefitting"}
       /\ ret.symm_sections # <<>> /\ ~ConcatRaises) =>
        LET sections == ret.symm_sections[1]
            width == readers[1].ndesc
        IN IF SumSeq(sections) # width
           THEN /\ ret.raised = "AssertionError"
                /\ ret.op = "compute_data_stat" => ret.mean = <<>> /\ ret.std = <<>>
                /\ ret.op = "compute_prefitting" => ret.weight = <<>>
           ELSE /\ ret.raised = ""
                /\ ret.op = "compute_data_stat" =>
                     /\ Len(ret.mean) = width
                     /\ Len(ret.std) = width
                     /\ \A c \in 1..width :
                          /\ ret.mean[c] = Pooled("mean", SectionOf(sections, c))
                          /\ ret.std[c] = Pooled("std", SectionOf(sections, c))
                          /\ \A d \in SectionOf(sections, c) :
                               ret.mean[d] = ret.mean[c] /\ ret.std[d] = ret.std[c]

\* sections [2, 3] over 5 channels, pooled over two systems
C13_Witness ==
    /\ ret.op = "compute_data_stat"
    /\ ret.symm_sections = <<(<<2, 3>>)>>
    /\ Len(readers) = 2
    /\ Len(ret.mean) = 5
    /\ ret.mean[1] = ret.mean[2]
    /\ ret.mean[3] = ret.mean[5]
    /\ ret.mean[2] # ret.mean[3]

C14_State ==
    /\ Len(readers) = Len(KeptPaths)
    /\ \A i \in DOMAIN readers :
         LET r == readers[i]
             loaded == Original(r.path)
         IN /\ r.nframes = Len(loaded)
            /\ r.batch_size = Effective(r.path)
            /\ \A f \in DOMAIN r.store :
                 /\ Len(r.store[f]) = r.nframes
                 /\ NoRepeat(r.store[f])
                 /\ Range(r.store[f]) = Range(loaded)
            /\ r.cls = "Reader" => r.store.data_ec = r.store.data_dm
            /\ r.cls # "Reader" => \A f \in DOMAIN r.store : r.store[f] = loaded
    /\ ret.op = "sample_all" =>
         LET r == readers[ret.csys[1]]
         IN /\ ret.sample = sample_all(r)
            /\ r.cls # "Reader" =>
                 \A k \in DOMAIN ret.sample : ret.sample[k] = Original(r.path)

C14_Step ==
    /\ batch_size' = batch_size
    /\ Len(readers') = Len(readers)
    /\ \A i \in DOMAIN readers :
         /\ readers'[i].nframes = readers[i].nframes
         /\ readers'[i].batch_size = readers[i].batch_size
         /\ readers'[i].cls # "Reader" => readers'[i].store = readers[i].store

\* C14: whatever sample() and sample_all() calls were made, the stored label and
\* descriptor arrays of a Reader are one and the same rearrangement of the frames
\* loaded (nframes of them, none lost, none twice, label and descriptor of a frame
\* at the same position); the stored arrays of a ForceReader or OrbitalReader are
\* the loaded frames in their filtered order, which is what sample_all() returns;
\* nframes and batch_size stay what construction made them.
C14_ReorderOnly == [](C14_State) /\ [][C14_Step]_vars

\* sample_all() of a Reader whose arrays have been reordered
C14_Witness ==
    /\ ret.op = "sample_all"
    /\ readers[1].cls = "Reader"
    /\ readers[1].nframes = 3
    /\ readers[1].store.data_ec # Original(1)
    /\ ret.sample[1] = readers[1].store.data_ec

\* the most frames one batch of the iterator can have
MostPerBatch == batch_size * group_batch

C15_Step ==
    IF ret'.raised = "StopIteration"
    THEN /\ sample_used > get_train_size
         /\ sample_used <= get_train_size + MostPerBatch
    ELSE /\ sample_used <= get_train_size
         /\ ret'.raised = ""
         /\ sample_used' > sample_used
         /\ sample_used' <= get_train_size + MostPerBatch
         /\ sample_used = get_train_size => sample_used' > get_train_size

\* C15: iterated on and on, every epoch of the GroupReader ends with StopIteration;
\* the frames delivered in an epoch, the running total when StopIteration is
\* raised, are more than T = get_train_size() and at most T + batch_size *
\* group_batch: a step from a total of at most T, T itself included, delivers one
\* more batch, and StopIteration comes on the step after the total passed T.
C15_EpochEnds ==
    /\ [][C15_Step]_vars
    /\ (err = "" /\ ret.raised = "") ~> (ret.raised = "StopIteration")

\* a group batch drawn when the running total was T exactly
C15_Witness ==
    /\ ret.op = "__next__"
    /\ ret.raised = ""
    /\ group_batch > 1
    /\ Len(readers) = 2
    /\ sample_used = get_train_size + MostPerBatch

C16_State ==
    /\ err \in {"", "IndexError"}
    /\ err = "IndexError" <=> KeptPaths = <<>>
    /\ err # "" => ret = NoReturn
    /\ err = "" =>
         /\ Len(readers) >= 1
         /\ get_train_size >= 1
         /\ \A i \in DOMAIN readers :
              /\ readers[i].nframes >= 1
              /\ nframes[i] = readers[i].nframes
              /\ sys_prob[i].num > 0
              /\ sys_prob[i].den = get_train_size
         /\ sample_idx = DOMAIN readers

\* C16: a path list that is empty, or whose systems all retain no frame, makes the
\* constructor fail (IndexError) and leaves no reader to call; a GroupReader that
\* was constructed has at least one system, a total of at least one frame, and a
\* positive selection weight for each of its systems.
C16_NeverEmpty == [](C16_State) /\ [][err = ""]_vars

\* two systems with frames on disk, none of them converged
C16_Witness ==
    /\ err = "IndexError"
    /\ Len(path_list) = 2
    /\ \A p \in DOMAIN path_list : path_list[p].raw > 0 /\ Retained(p) = 0
    /\ readers = <<>>

====
